---- MODULE Spec2Model ----
(***************************************************************************)
(* A model of enumeration.py: the Enum class (an ordered collection of     *)
(* EnumItems reachable by label) and the EnumItem class (one value of an   *)
(* enumeration, ordered by its position in the enumeration's values), and  *)
(* the EnumField class (the column that stores an item as its value): its  *)
(* construction and its conversions.  EnumField.deconstruct, which edits   *)
(* what CharField.deconstruct of the host framework returns, is left out.  *)
(*                                                                         *)
(* Python objects are written as tokens.  A token of NonStrings stands for *)
(* an object that is not a str (3.14 is a float, [] is a list, which is    *)
(* also unhashable); every other token is the str of that text.  The token *)
(* None stands for Python's None.  Where an object may stand in the place  *)
(* of an EnumItem (an operand of a comparison, a key of a mapping, the     *)
(* value of an attribute) it is written Object(token), a record as the     *)
(* EnumItems are.                                                          *)
(***************************************************************************)
EXTENDS Integers, Sequences, FiniteSets, TLC

\* ------------------------------------------------------------------ bounds

\* The longest declaration Enum(*items) is called with.
MaxPairs == 3

\* ------------------------------------------------------- the input universe

None == "None"
True == "True"
False == "False"
NotImplemented == "NotImplemented"
Float == "3.14"
List == "[]"
NonStrings == {Float, List}
Unhashable == {List}

\* What the declarations draw their values and labels from.
Values == {"a", "bb", "ccc", Float, List}
Labels == {"A", "get_ui_labels", "has_ui_labels", Float}

\* The attributes every Enum has from its class (one stands for all).
ClassAttributes == {"get_ui_labels"}
BoundMethod == "<bound method>"

\* The names attributes are read by, the names and values they are assigned.
\* The names assigned are those a caller of the public interface assigns: the
\* labels and names of its own; the private _items is not among them.
ReadNames == {"A", "get_ui_labels", "has_ui_labels", "other", "COW"}
AssignNames == {"A", "other"}
AssignValues == {[repr |-> "Something"], [repr |-> None]}

\* The UI labels handed to set_ui_label and set_ui_labels.
UiLabels == {"x", "y", None}

\* The operators of the six rich comparisons.
Operators == {"eq", "ne", "lt", "le", "gt", "ge"}

Pairs == Values \X Labels
PairSeqs == UNION {[1..n -> Pairs] : n \in 0..MaxPairs}

VARIABLES pc, _items, has_ui_labels, __dict__, field, result

vars == <<pc, _items, has_ui_labels, __dict__, field, result>>

\* ---------------------------------------------------------- Python helpers

isinstance_str(o) == o \notin NonStrings

\* s[lo:hi] of a tuple, 0-based, hi excluded.
Slice(s, lo, hi) == SubSeq(s, lo + 1, hi)

\* tuple.index(v): the first position of v, 0-based.
index(s, v) == CHOOSE i \in 0..(Len(s) - 1) :
                   /\ s[i + 1] = v
                   /\ \A j \in 0..(i - 1) : s[j + 1] # v

Range(s) == {s[i] : i \in 1..Len(s)}

\* zip(*items): the values and the labels of the pairs.
zip_values(items) == [i \in 1..Len(items) |-> items[i][1]]
zip_labels(items) == [i \in 1..Len(items) |-> items[i][2]]

\* An OrderedDict as the sequence of its (key, value) entries in insertion
\* order; od[k] = v replaces the value of a key it holds and appends otherwise.
od_keys(od) == {od[i].key : i \in 1..Len(od)}
od_get(od, k) == od[CHOOSE i \in 1..Len(od) : od[i].key = k].value
od_set(od, k, v) ==
    IF k \in od_keys(od)
    THEN [i \in 1..Len(od) |-> IF od[i].key = k THEN [key |-> k, value |-> v] ELSE od[i]]
    ELSE Append(od, [key |-> k, value |-> v])
od_values(od) == [i \in 1..Len(od) |-> od[i].value]

\* What a call gives back: the value returned, or the exception raised with
\* its argument.
Return(v) == [exc |-> "none", value |-> v]
Raise(e, v) == [exc |-> e, value |-> v]
Call(op, arg, ret) == [op |-> op, arg |-> arg, ret |-> ret]

\* --------------------------------------------------------------- EnumItem

\* EnumItem.__init__, for an item_value that is in enum_values.
EnumItem(item_value, enum_values) ==
    [enum_values |-> enum_values,
     item_value |-> item_value,
     _item_index |-> index(enum_values, item_value),
     _item_ui_label |-> None]

\* An object that is no EnumItem.
Object(repr) == [repr |-> repr]

isinstance_EnumItem(o) == "enum_values" \in DOMAIN o

bool(b) == IF b THEN True ELSE False

\* operator(x, y), for the functions eq, ne, lt, le, gt, ge of the operator module.
apply(operator, x, y) ==
    CASE operator = "eq" -> x = y
      [] operator = "ne" -> x # y
      [] operator = "lt" -> x < y
      [] operator = "le" -> x <= y
      [] operator = "gt" -> x > y
      [] operator = "ge" -> x >= y

\* _compare with the operands of the operator exchanged.
_compare_exchanged(self, other_item, operator) ==
    IF ~isinstance_EnumItem(other_item) THEN NotImplemented
    ELSE IF self.enum_values # other_item.enum_values THEN NotImplemented
    ELSE bool(apply(operator, other_item._item_index, self._item_index))

\* _compare without the test of the enumerations' values.
_compare_any_enum(self, other_item, operator) ==
    IF ~isinstance_EnumItem(other_item) THEN NotImplemented
    ELSE bool(apply(operator, self._item_index, other_item._item_index))

\* EnumItem._compare(other_item, operator)
_compare(self, other_item, operator) ==
    IF ~isinstance_EnumItem(other_item) THEN NotImplemented
    ELSE IF self.enum_values # other_item.enum_values THEN NotImplemented
    ELSE bool(apply(operator, self._item_index, other_item._item_index))

\* The four properties that slice the values around the item.
previous_values(self) == Slice(self.enum_values, 0, self._item_index)
previous_values_with_self(self) == Slice(self.enum_values, 0, self._item_index + 1)
\* subsequent_values that starts at the item itself.
subsequent_values_from_self(self) ==
    Slice(self.enum_values, self._item_index, Len(self.enum_values))

subsequent_values(self) ==
    Slice(self.enum_values, self._item_index + 1, Len(self.enum_values))
subsequent_values_with_self(self) ==
    Slice(self.enum_values, self._item_index, Len(self.enum_values))

\* EnumItem.get_ui_label()
get_ui_label(self) ==
    IF self._item_ui_label = None
    THEN Raise("AssertionError", None)
    ELSE Return(self._item_ui_label)

\* EnumItem.set_ui_label(label): the item afterwards.
set_ui_label(self, label) == [self EXCEPT !._item_ui_label = label]

\* What a dict or a set tells its keys apart by: the hash (of the item_value)
\* and __eq__ (the enum_values and the index); the UI label is no part of it.
key(item) == [enum_values |-> item.enum_values,
              item_value |-> item.item_value,
              _item_index |-> item._item_index]

\* ------------------------------------------------------------------- Enum

\* Enum.__init__: the error it raises ("ok" for none) and the _items it built.
RECURSIVE build_items(_, _, _)
build_items(items, values, od) ==
    IF items = <<>> THEN [err |-> "ok", _items |-> od]
    ELSE LET value == Head(items)[1]
             label == Head(items)[2]
         IN IF ~isinstance_str(value) \/ ~isinstance_str(label)
            THEN [err |-> "AssertionError", _items |-> <<>>]
            ELSE build_items(Tail(items), values,
                             od_set(od, label, EnumItem(value, values)))

\* Enum.__init__ without the assertion that the values are unique.
Enum__init__values_unchecked(items) ==
    LET values == zip_values(items)
        labels == zip_labels(items)
        failed(e) == [err |-> e, _items |-> <<>>]
    IN IF Len(items) = 0 THEN failed("ValueError")
       ELSE IF (Range(values) \cup Range(labels)) \cap Unhashable # {}
       THEN failed("TypeError")
       ELSE IF Cardinality(Range(labels)) # Len(items) THEN failed("AssertionError")
       ELSE LET built == build_items(items, values, <<>>)
            IN IF built.err # "ok" THEN built
               ELSE IF "has_ui_labels" \in od_keys(built._items)
               THEN failed("AssertionError")
               ELSE built

Enum__init__(items) ==
    LET values == zip_values(items)
        labels == zip_labels(items)
        failed(e) == [err |-> e, _items |-> <<>>]
    IN IF Len(items) = 0 THEN failed("ValueError")
       ELSE IF (Range(values) \cup Range(labels)) \cap Unhashable # {}
       THEN failed("TypeError")
       ELSE IF Cardinality(Range(labels)) # Len(items) THEN failed("AssertionError")
       ELSE IF Cardinality(Range(values)) # Len(items) THEN failed("AssertionError")
       ELSE LET built == build_items(items, values, <<>>)
            IN IF built.err # "ok" THEN built
               ELSE IF "has_ui_labels" \in od_keys(built._items)
               THEN failed("AssertionError")
               ELSE built

\* The EnumItem objects of the enumeration, in declaration order.
enum_items == od_values(_items)

\* __getattr__ that returns None for a label it does not know.
__getattr__unchecked(label) ==
    IF label \notin od_keys(_items)
    THEN Return(Object(None))
    ELSE Return(od_get(_items, label))

\* Enum.__getattr__(label), which Python calls for a name it finds neither in
\* the instance's attributes nor in the class.
__getattr__(label) ==
    IF label \notin od_keys(_items)
    THEN Raise("AttributeError", label)
    ELSE Return(od_get(_items, label))

\* enum.<name>: the instance's attributes first, then the class, then
\* __getattr__.
getattr(name) ==
    IF name \in DOMAIN __dict__ THEN Return(__dict__[name])
    ELSE IF name = "has_ui_labels" THEN Return(Object(bool(has_ui_labels)))
    ELSE IF name \in ClassAttributes THEN Return(Object(BoundMethod))
    ELSE __getattr__(name)

\* list(enum), by Enum.__iter__.
__iter__ == [i \in 1..Len(_items) |-> _items[i].value.item_value]

\* len(enum)
__len__ == Len(_items)

\* Enum.get_items_by_values()
RECURSIVE items_by_values(_, _)
items_by_values(items, od) ==
    IF items = <<>> THEN od
    ELSE items_by_values(Tail(items), od_set(od, Head(items).item_value, Head(items)))

get_items_by_values == items_by_values(enum_items, <<>>)

\* get_item_by_value that raises the error without the value.
get_item_by_value_bare_error(item_value) ==
    IF item_value \notin Range(__iter__)
    THEN Raise("NonExistingEnumItemError", None)
    ELSE Return(od_get(get_items_by_values, item_value))

\* Enum.get_item_by_value(item_value)
get_item_by_value(item_value) ==
    IF item_value \notin Range(__iter__)
    THEN Raise("NonExistingEnumItemError", item_value)
    ELSE Return(od_get(get_items_by_values, item_value))

\* __setattr__ without the guard of the labels.
__setattr__unguarded(name, value) ==
    [ret |-> Return(None),
     __dict__ |-> [n \in DOMAIN __dict__ \cup {name} |->
                      IF n = name THEN value ELSE __dict__[n]]]

\* Enum.__setattr__(name, value): what it gives back and the instance's
\* attributes afterwards.  _items is set by then, so the guard applies.
__setattr__(name, value) ==
    IF name \in od_keys(_items)
    THEN [ret |-> Raise("AssertionError", None), __dict__ |-> __dict__]
    ELSE [ret |-> Return(None),
          __dict__ |-> [n \in DOMAIN __dict__ \cup {name} |->
                           IF n = name THEN value ELSE __dict__[n]]]

\* set_ui_labels that only asserts that every item has an entry.
set_ui_labels_extra_keys(ui_labels) ==
    IF ~({key(enum_items[i]) : i \in 1..Len(enum_items)} \subseteq DOMAIN ui_labels)
    THEN [ret |-> Raise("AssertionError", None),
          _items |-> _items, has_ui_labels |-> has_ui_labels]
    ELSE [ret |-> Return(None),
          _items |-> [i \in 1..Len(_items) |->
                         [key |-> _items[i].key,
                          value |-> set_ui_label(_items[i].value,
                                                 ui_labels[key(_items[i].value)])]],
          has_ui_labels |-> TRUE]

\* Enum.set_ui_labels(ui_labels): what it gives back, the _items and the
\* has_ui_labels afterwards.  The assertion comes before any label is set, and
\* past it ui_labels has an entry for every item.
set_ui_labels(ui_labels) ==
    IF {key(enum_items[i]) : i \in 1..Len(enum_items)} # DOMAIN ui_labels
    THEN [ret |-> Raise("AssertionError", None),
          _items |-> _items, has_ui_labels |-> has_ui_labels]
    ELSE [ret |-> Return(None),
          _items |-> [i \in 1..Len(_items) |->
                         [key |-> _items[i].key,
                          value |-> set_ui_label(_items[i].value,
                                                 ui_labels[key(_items[i].value)])]],
          has_ui_labels |-> TRUE]

\* Enum.get_ui_labels(): the first item without a UI label fails it.
get_ui_labels ==
    IF \E i \in 1..Len(enum_items) : get_ui_label(enum_items[i]).exc # "none"
    THEN Raise("AssertionError", None)
    ELSE Return([i \in 1..Len(enum_items) |->
                    <<enum_items[i], get_ui_label(enum_items[i]).value>>])

\* -------------------------------------------------------------- EnumField

\* A member of the enumeration as the field's mapping holds it: the object
\* itself, here its place in _items.
ref(item) == 1 + index(__iter__, item.item_value)

\* max(len(enum_value) for enum_value in enum), for an enum that has an item.
longest(values) ==
    CHOOSE n \in {Len(values[i]) : i \in 1..Len(values)} :
        \A i \in 1..Len(values) : Len(values[i]) <= n

\* The field of the state in which no EnumField has been built.
NoField ==
    [built |-> FALSE, max_length |-> 0, choices |-> <<>>,
     enum_items_by_values |-> <<>>]

\* EnumField.__init__(enum, **kwargs): the outcome and the field built. The
\* call of CharField.__init__ names max_length and choices, so that a
\* max_length among kwargs is a TypeError of the call.
EnumField__init__(kwargs) ==
    LET longest_enum_value == longest(__iter__)
        labels == get_ui_labels
        choices == IF has_ui_labels THEN labels.value
                   ELSE IF "choices" \in DOMAIN kwargs THEN kwargs["choices"]
                   ELSE <<>>
        by_values == get_items_by_values
    IN IF has_ui_labels /\ "choices" \in DOMAIN kwargs
       THEN [ret |-> Raise("AssertionError", None), field |-> field]
       ELSE IF has_ui_labels /\ labels.exc # "none"
       THEN [ret |-> Raise(labels.exc, None), field |-> field]
       ELSE IF "max_length" \in DOMAIN kwargs
       THEN [ret |-> Raise("TypeError", None), field |-> field]
       ELSE [ret |-> Return("<EnumField>"),
             field |-> [built |-> TRUE,
                        max_length |-> longest_enum_value,
                        choices |-> choices,
                        enum_items_by_values |->
                            [i \in 1..Len(by_values) |->
                                [key |-> by_values[i].key,
                                 value |-> ref(by_values[i].value)]]]]

\* to_python that takes a string that is no value of the enum for None.
to_python_lenient(value) ==
    IF isinstance_EnumItem(value)
    THEN IF value.enum_values # [i \in 1..Len(field.enum_items_by_values) |->
                                    field.enum_items_by_values[i].key]
         THEN Raise("AssertionError", value)
         ELSE Return(value)
    ELSE IF value = Object(None) THEN Return(value)
    ELSE IF value.repr \in Unhashable THEN Raise("TypeError", value)
    ELSE IF value.repr \notin od_keys(field.enum_items_by_values)
    THEN Return(Object(None))
    ELSE Return(enum_items[od_get(field.enum_items_by_values, value.repr)])

\* to_python without the test of the item's enumeration.
to_python_any_item(value) ==
    IF isinstance_EnumItem(value) THEN Return(value)
    ELSE IF value = Object(None) THEN Return(value)
    ELSE IF value.repr \in Unhashable THEN Raise("TypeError", value)
    ELSE IF value.repr \notin od_keys(field.enum_items_by_values)
    THEN Raise("AssertionError", value)
    ELSE Return(enum_items[od_get(field.enum_items_by_values, value.repr)])

\* EnumField.to_python(value)
to_python(value) ==
    IF isinstance_EnumItem(value)
    THEN IF value.enum_values # [i \in 1..Len(field.enum_items_by_values) |->
                                    field.enum_items_by_values[i].key]
         THEN Raise("AssertionError", value)
         ELSE Return(value)
    ELSE IF value = Object(None) THEN Return(value)
    ELSE IF value.repr \in Unhashable THEN Raise("TypeError", value)
    ELSE IF value.repr \notin od_keys(field.enum_items_by_values)
    THEN Raise("AssertionError", value)
    ELSE Return(enum_items[od_get(field.enum_items_by_values, value.repr)])

\* EnumField.from_db_value(value, expression, connection, context)
from_db_value(value) == to_python(value)

\* str(value): EnumItem.__str__ for an item, the str itself for a str.
str(value) ==
    IF isinstance_EnumItem(value) THEN Object(value.item_value) ELSE Object(value.repr)

\* EnumField.get_prep_value(value)
get_prep_value(value) ==
    IF value # Object(None) THEN Return(str(value)) ELSE Return(value)

\* ------------------------------------------------------ the inputs of calls

\* An item of another enumeration that shares the value "a", and the str "a".
ForeignItem == EnumItem("a", <<"a", "Cow">>)

MemberKeys == {key(enum_items[i]) : i \in 1..Len(enum_items)}
OtherKeys == {key(ForeignItem), Object("a")}

\* The mappings set_ui_labels is called with: every labelling of exactly the
\* items, and every other set of keys (labelled "x").
Mappings ==
    [MemberKeys -> UiLabels]
        \cup {[k \in K |-> "x"] : K \in (SUBSET (MemberKeys \cup OtherKeys)) \ {MemberKeys}}

\* The declarations of the other enumerations items are compared with: every
\* sequence of distinct str values, labelled in turn.
OtherLabels == <<"W", "X", "Y", "Z">>
OtherDecls ==
    {d \in UNION {[1..n -> (Values \ NonStrings) \X Range(OtherLabels)] : n \in 1..MaxPairs} :
        /\ \A i \in 1..Len(d) : d[i][2] = OtherLabels[i]
        /\ \A i, j \in 1..Len(d) : i # j => d[i][1] # d[j][1]}

\* The items of the other enumerations.
OtherItems ==
    UNION {{Enum__init__(d)._items[i].value : i \in 1..Len(d)} : d \in OtherDecls}

\* What an item is compared with: the items of its own enumeration, the items
\* of another enumeration and an object that is no EnumItem.
Operands ==
    {[enum |-> "self", obj |-> enum_items[i]] : i \in 1..Len(enum_items)}
        \cup {[enum |-> "other", obj |-> item] : item \in OtherItems}
        \cup {[enum |-> "none", obj |-> Object("a")]}

\* The items whose properties are read: those of the enumeration and those of
\* the other enumerations.
Items == {o.obj : o \in {o \in Operands : o.enum # "none"}}

\* A str that no enumeration declares.
Stranger == "ultra_large"

\* What a column stores and what else is no item: None, the strs, a float
\* and a list.
StoredValues ==
    {[enum |-> "none", obj |-> Object(v)] : v \in Values \cup {None, Stranger}}

\* What to_python converts: the operands of the comparisons and what a column
\* stores.
FieldValues == Operands \cup StoredValues

\* What get_prep_value prepares: the items of the enumeration and what a
\* column stores.
PrepValues == {o \in Operands : o.enum = "self"} \cup StoredValues

\* The keyword arguments an EnumField is built with.
Choices == <<<<Object("a"), "Custom">>>>
Kwargs == {[n \in {} |-> Choices], [choices |-> Choices], [max_length |-> Choices]}

\* ------------------------------------------------------------------ actions

Init ==
    /\ pc = "start"
    /\ _items = <<>>
    /\ has_ui_labels = FALSE
    /\ __dict__ = [n \in {} |-> None]
    /\ field = NoField
    /\ result = Call("none", <<>>, Return(None))

\* Enum(*items)
Construct ==
    /\ pc = "start"
    /\ \E items \in PairSeqs :
          LET r == Enum__init__(items)
          IN /\ pc' = IF r.err = "ok" THEN "ready" ELSE "failed"
             /\ _items' = r._items
             /\ result' = Call("Enum", items,
                               IF r.err = "ok" THEN Return("<Enum>") ELSE Raise(r.err, None))
    /\ UNCHANGED <<has_ui_labels, __dict__, field>>

\* enum.<name>
GetAttr ==
    /\ pc = "ready"
    /\ \E name \in ReadNames : result' = Call("getattr", name, getattr(name))
    /\ UNCHANGED <<pc, _items, has_ui_labels, __dict__, field>>

\* enum.<name> = value
SetAttr ==
    /\ pc = "ready"
    /\ \E name \in AssignNames, value \in AssignValues :
          LET r == __setattr__(name, value)
          IN /\ __dict__' = r.__dict__
             /\ result' = Call("setattr", <<name, value>>, r.ret)
    /\ UNCHANGED <<pc, _items, has_ui_labels, field>>

\* list(enum)
Iter ==
    /\ pc = "ready"
    /\ result' = Call("iter", <<>>, Return(__iter__))
    /\ UNCHANGED <<pc, _items, has_ui_labels, __dict__, field>>

\* len(enum)
Length ==
    /\ pc = "ready"
    /\ result' = Call("len", <<>>, Return(__len__))
    /\ UNCHANGED <<pc, _items, has_ui_labels, __dict__, field>>

\* enum.get_item_by_value(item_value)
GetItemByValue ==
    /\ pc = "ready"
    /\ \E item_value \in Values :
          result' = Call("get_item_by_value", item_value, get_item_by_value(item_value))
    /\ UNCHANGED <<pc, _items, has_ui_labels, __dict__, field>>

\* enum.set_ui_labels(ui_labels)
SetUiLabels ==
    /\ pc = "ready"
    /\ \E ui_labels \in Mappings :
          LET r == set_ui_labels(ui_labels)
          IN /\ _items' = r._items
             /\ has_ui_labels' = r.has_ui_labels
             /\ result' = Call("set_ui_labels", ui_labels, r.ret)
    /\ UNCHANGED <<pc, __dict__, field>>

\* enum.get_ui_labels()
GetUiLabels ==
    /\ pc = "ready"
    /\ result' = Call("get_ui_labels", <<>>, get_ui_labels)
    /\ UNCHANGED <<pc, _items, has_ui_labels, __dict__, field>>

\* item.set_ui_label(label), for an item of the enumeration
SetUiLabel ==
    /\ pc = "ready"
    /\ \E i \in 1..Len(_items), label \in UiLabels :
          /\ _items' = [_items EXCEPT ![i].value = set_ui_label(@, label)]
          /\ result' = Call("set_ui_label", [self |-> i, label |-> label], Return(None))
    /\ UNCHANGED <<pc, has_ui_labels, __dict__, field>>

\* item.get_ui_label(), for an item of the enumeration
GetUiLabel ==
    /\ pc = "ready"
    /\ \E i \in 1..Len(_items) :
          result' = Call("get_ui_label", [self |-> i], get_ui_label(enum_items[i]))
    /\ UNCHANGED <<pc, _items, has_ui_labels, __dict__, field>>

\* item == other, item != other, item < other, ...: the rich comparison method
\* of an item of the enumeration, called with other.
Compare ==
    /\ pc = "ready"
    /\ \E i \in 1..Len(_items), other \in Operands, operator \in Operators :
          result' = Call("compare",
                         [self |-> i, other |-> other, operator |-> operator],
                         Return(_compare(enum_items[i], other.obj, operator)))
    /\ UNCHANGED <<pc, _items, has_ui_labels, __dict__, field>>

\* item.previous_values
PreviousValues ==
    /\ pc = "ready"
    /\ \E self \in Items :
          result' = Call("previous_values", [self |-> self], Return(previous_values(self)))
    /\ UNCHANGED <<pc, _items, has_ui_labels, __dict__, field>>

\* item.previous_values_with_self
PreviousValuesWithSelf ==
    /\ pc = "ready"
    /\ \E self \in Items :
          result' = Call("previous_values_with_self", [self |-> self], Return(previous_values_with_self(self)))
    /\ UNCHANGED <<pc, _items, has_ui_labels, __dict__, field>>

\* item.subsequent_values
SubsequentValues ==
    /\ pc = "ready"
    /\ \E self \in Items :
          result' = Call("subsequent_values", [self |-> self], Return(subsequent_values(self)))
    /\ UNCHANGED <<pc, _items, has_ui_labels, __dict__, field>>

\* item.subsequent_values_with_self
SubsequentValuesWithSelf ==
    /\ pc = "ready"
    /\ \E self \in Items :
          result' = Call("subsequent_values_with_self", [self |-> self], Return(subsequent_values_with_self(self)))
    /\ UNCHANGED <<pc, _items, has_ui_labels, __dict__, field>>

\* EnumField(enum, **kwargs)
NewField ==
    /\ pc = "ready"
    /\ \E kwargs \in Kwargs :
          LET r == EnumField__init__(kwargs)
          IN /\ field' = r.field
             /\ result' = Call("EnumField", kwargs, r.ret)
    /\ UNCHANGED <<pc, _items, has_ui_labels, __dict__>>

\* field.to_python(value)
ToPython ==
    /\ pc = "ready"
    /\ field.built
    /\ \E value \in FieldValues :
          result' = Call("to_python", value, to_python(value.obj))
    /\ UNCHANGED <<pc, _items, has_ui_labels, __dict__, field>>

\* field.from_db_value(value, expression, connection, context)
FromDbValue ==
    /\ pc = "ready"
    /\ field.built
    /\ \E value \in StoredValues :
          result' = Call("from_db_value", value, from_db_value(value.obj))
    /\ UNCHANGED <<pc, _items, has_ui_labels, __dict__, field>>

\* field.get_prep_value(value)
GetPrepValue ==
    /\ pc = "ready"
    /\ field.built
    /\ \E value \in PrepValues :
          result' = Call("get_prep_value", value, get_prep_value(value.obj))
    /\ UNCHANGED <<pc, _items, has_ui_labels, __dict__, field>>

\* The operations of an Enum and the UI label of its items.
Next ==
    \/ Construct
    \/ GetAttr
    \/ SetAttr
    \/ Iter
    \/ Length
    \/ GetItemByValue
    \/ SetUiLabels
    \/ GetUiLabels
    \/ SetUiLabel
    \/ GetUiLabel

Spec == Init /\ [][Next]_vars

\* The comparisons and the slices of the items of an Enum, which read nothing
\* the operations above change.
NextItem ==
    \/ Construct
    \/ Compare
    \/ PreviousValues
    \/ PreviousValuesWithSelf
    \/ SubsequentValues
    \/ SubsequentValuesWithSelf

SpecItem == Init /\ [][NextItem]_vars

\* The fields built on an Enum before and after its UI labels are set, and
\* their conversions.
NextField ==
    \/ Construct
    \/ SetUiLabels
    \/ SetUiLabel
    \/ NewField
    \/ ToPython
    \/ FromDbValue
    \/ GetPrepValue

SpecField == Init /\ [][NextField]_vars

\* ------------------------------------------------------------------ claims

\* The position of an item's value in the values of its enumeration, counted
\* from 1, and the values before and after a position.
position(item) == CHOOSE p \in 1..Len(item.enum_values) : item.enum_values[p] = item.item_value
same_values(a, o) == o.enum # "none" /\ o.obj.enum_values = a.enum_values

\* What the declaration order makes of a comparison of positions pa and pb.
by_order(operator, pa, pb) ==
    CASE operator = "lt" -> pa < pb
      [] operator = "eq" -> pa = pb
      [] operator = "gt" -> pa > pb
      [] operator = "le" -> pa < pb \/ pa = pb
      [] operator = "ge" -> pa > pb \/ pa = pb
      [] operator = "ne" -> ~(pa = pb)

\* C1: for two items a and b with the same sequence of values, exactly one of
\* a < b, a == b, a > b is true: a < b iff a's value is declared before b's,
\* a == b iff they have the same value; a <= b iff a < b or a == b, a >= b iff
\* a > b or a == b, a != b iff not a == b.  It holds of every pair of operands
\* and of the comparison last made.
C1_SameEnumOrder ==
    pc = "ready" =>
        /\ \A i \in 1..Len(enum_items) : \A o \in Operands :
              same_values(enum_items[i], o) =>
                  LET a == enum_items[i]
                      b == o.obj
                      c(operator) == _compare(a, b, operator)
                  IN /\ c("lt") = bool(position(a) < position(b))
                     /\ c("eq") = bool(a.item_value = b.item_value)
                     /\ c("gt") = bool(position(a) > position(b))
                     /\ Cardinality({op \in {"lt", "eq", "gt"} : c(op) = True}) = 1
                     /\ c("le") = bool(c("lt") = True \/ c("eq") = True)
                     /\ c("ge") = bool(c("gt") = True \/ c("eq") = True)
                     /\ c("ne") = bool(c("eq") # True)
        /\ (result.op = "compare" /\ same_values(enum_items[result.arg.self], result.arg.other)) =>
              result.ret.value = bool(by_order(result.arg.operator,
                                               position(enum_items[result.arg.self]),
                                               position(result.arg.other.obj)))

\* An item has been compared with a later item of its own enumeration by <.
C1_Witness ==
    /\ result.op = "compare"
    /\ result.arg.other.enum = "self"
    /\ result.arg.operator = "lt"
    /\ position(enum_items[result.arg.self]) < position(result.arg.other.obj)
    /\ result.ret.value = True

\* C2 as stated: an item compared with an item of another enumeration, its
\* values the same or not, or with an object that is no item, gives
\* NotImplemented.
C2_OtherEnumNotImplemented ==
    (result.op = "compare" /\ result.arg.other.enum # "self") =>
        result.ret.value = NotImplemented

\* C2 amended: an item compared with an object that is no item, or with an item
\* whose enumeration has other values (in content, order or number), gives
\* NotImplemented; compared with an item of another enumeration that has the
\* same values in the same order it gives the boolean of their positions.
C2_OtherValuesNotImplemented ==
    result.op = "compare" =>
        LET a == enum_items[result.arg.self]
            o == result.arg.other
        IN IF same_values(a, o)
           THEN result.ret.value = bool(by_order(result.arg.operator,
                                                 position(a), position(o.obj)))
           ELSE result.ret.value = NotImplemented

\* An item has been compared with an item of another enumeration that shares
\* its value but not its sequence of values.
C2_Witness ==
    /\ result.op = "compare"
    /\ result.arg.other.enum = "other"
    /\ result.arg.other.obj.item_value = enum_items[result.arg.self].item_value
    /\ result.arg.other.obj.enum_values # enum_items[result.arg.self].enum_values
    /\ result.ret.value = NotImplemented

\* C10: for an item at position i (from 0) of the values S, previous_values is
\* S[0..i), previous_values_with_self S[0..i], subsequent_values S(i..end] and
\* subsequent_values_with_self S[i..end]; so previous_values followed by
\* subsequent_values_with_self is S, previous_values_with_self followed by
\* subsequent_values is S, the first item has no previous values and the last
\* no subsequent ones.
before(S, n) == [k \in 1..n |-> S[k]]
after(S, n) == [k \in 1..(Len(S) - n) |-> S[n + k]]

C10_Slices ==
    /\ pc = "ready" =>
          \A self \in Items :
              LET S == self.enum_values
                  p == position(self)
              IN /\ previous_values(self) = before(S, p - 1)
                 /\ previous_values_with_self(self) = before(S, p)
                 /\ subsequent_values(self) = after(S, p)
                 /\ subsequent_values_with_self(self) = after(S, p - 1)
                 /\ previous_values(self) \o subsequent_values_with_self(self) = S
                 /\ previous_values_with_self(self) \o subsequent_values(self) = S
                 /\ (p = 1 => previous_values(self) = <<>>)
                 /\ (p = Len(S) => subsequent_values(self) = <<>>)
    /\ result.op = "previous_values" =>
          result.ret.value = before(result.arg.self.enum_values, position(result.arg.self) - 1)
    /\ result.op = "previous_values_with_self" =>
          result.ret.value = before(result.arg.self.enum_values, position(result.arg.self))
    /\ result.op = "subsequent_values" =>
          result.ret.value = after(result.arg.self.enum_values, position(result.arg.self))
    /\ result.op = "subsequent_values_with_self" =>
          result.ret.value = after(result.arg.self.enum_values, position(result.arg.self) - 1)

\* The subsequent values of an item in the middle of three have been read.
C10_Witness ==
    /\ result.op = "subsequent_values"
    /\ Len(result.arg.self.enum_values) = 3
    /\ position(result.arg.self) = 2
    /\ result.ret.value = <<result.arg.self.enum_values[3]>>

\* What C3 names: fewer than one pair, a value or a label that is no str, two
\* pairs with the same value or with the same label.
invalid(items) ==
    \/ Len(items) < 1
    \/ \E i \in 1..Len(items) : ~isinstance_str(items[i][1]) \/ ~isinstance_str(items[i][2])
    \/ \E i, j \in 1..Len(items) : i # j /\ items[i][1] = items[j][1]
    \/ \E i, j \in 1..Len(items) : i # j /\ items[i][2] = items[j][2]

unhashable(items) ==
    \E i \in 1..Len(items) : items[i][1] \in Unhashable \/ items[i][2] \in Unhashable

\* C3 as stated: Enum(*pairs) fails with an AssertionError, and creates no
\* enumeration, whenever fewer than one pair is given, a value or a label is
\* no str, or two pairs share a value or a label.
C3_InvalidAssertionError ==
    (result.op = "Enum" /\ invalid(result.arg)) =>
        /\ result.ret.exc = "AssertionError"
        /\ pc = "failed"
        /\ _items = <<>>

\* C3 amended: in each of those cases Enum(*pairs) fails and creates no
\* enumeration; the error is a ValueError when no pair is given, a TypeError
\* when a value or a label cannot be hashed, and an AssertionError otherwise.
C3_InvalidFails ==
    (result.op = "Enum" /\ invalid(result.arg)) =>
        /\ result.ret.exc = IF Len(result.arg) = 0 THEN "ValueError"
                            ELSE IF unhashable(result.arg) THEN "TypeError"
                            ELSE "AssertionError"
        /\ pc = "failed"
        /\ _items = <<>>

\* Enum was called with two pairs of distinct str values and one str label,
\* and failed with an AssertionError.
C3_Witness ==
    /\ result.op = "Enum"
    /\ Len(result.arg) = 2
    /\ \A i \in 1..2 : isinstance_str(result.arg[i][1]) /\ isinstance_str(result.arg[i][2])
    /\ result.arg[1][1] # result.arg[2][1]
    /\ result.arg[1][2] = result.arg[2][2]
    /\ result.ret.exc = "AssertionError"
    /\ pc = "failed"

\* What reading a declared label gives is the same member (or other object)
\* in the next state as in this one.
bound_alike(label) ==
    LET now == getattr(label)
        next == getattr(label)'
    IN /\ next.exc = now.exc
       /\ isinstance_EnumItem(next.value) = isinstance_EnumItem(now.value)
       /\ IF isinstance_EnumItem(now.value)
          THEN key(next.value) = key(now.value)
          ELSE next.value = now.value

\* C4: after Enum(*pairs) succeeded, len(enum) is the number of pairs, an
\* iteration gives the declared values in their order and each label is bound
\* to the member of its value; and no operation on the enumeration (attribute
\* reads and assignments, iteration, lookups, set_ui_labels, get_ui_labels, the
\* labelling of an item) changes the length, the iteration, the labels, the
\* member a label is bound to or what reading the label gives.
C4_MembersFixed ==
    /\ [](result.op = "Enum" /\ pc = "ready" =>
            /\ __len__ = Len(result.arg)
            /\ __iter__ = zip_values(result.arg)
            /\ \A k \in 1..Len(result.arg) :
                  /\ _items[k].key = result.arg[k][2]
                  /\ _items[k].value.item_value = result.arg[k][1]
                  /\ _items[k].value.enum_values = zip_values(result.arg)
                  /\ __getattr__(result.arg[k][2]).value = _items[k].value)
    /\ [][pc = "ready" =>
            /\ __len__' = __len__
            /\ __iter__' = __iter__
            /\ \A k \in 1..Len(_items) :
                  /\ _items'[k].key = _items[k].key
                  /\ key(_items'[k].value) = key(_items[k].value)
                  /\ bound_alike(_items[k].key)]_vars

\* A name was assigned on an enumeration of two members that has UI labels.
C4_Witness ==
    /\ result.op = "setattr"
    /\ result.ret.exc = "none"
    /\ has_ui_labels
    /\ __len__ = 2
    /\ __iter__ = <<"bb", "a">>

\* C5: get_item_by_value(v) returns the member whose value is v when there is
\* one (so get_item_by_value(m.item_value) is m for every member m), fails with
\* NonExistingEnumItemError carrying v otherwise, and changes nothing of the
\* enumeration.
C5_GetItemByValue ==
    /\ [](pc = "ready" =>
            \A i \in 1..Len(enum_items) :
                /\ get_item_by_value(enum_items[i].item_value).exc = "none"
                /\ get_item_by_value(enum_items[i].item_value).value = enum_items[i])
    /\ [](result.op = "get_item_by_value" =>
            IF \E i \in 1..Len(enum_items) : enum_items[i].item_value = result.arg
            THEN /\ result.ret.exc = "none"
                 /\ \E i \in 1..Len(enum_items) :
                       /\ enum_items[i].item_value = result.arg
                       /\ result.ret.value = enum_items[i]
            ELSE /\ result.ret.exc = "NonExistingEnumItemError"
                 /\ result.ret.value = result.arg)
    /\ [][result'.op = "get_item_by_value" => UNCHANGED <<pc, _items, has_ui_labels, __dict__, field>>]_vars

\* The value of the second member of an enumeration with UI labels was looked up.
C5_Witness ==
    /\ result.op = "get_item_by_value"
    /\ __len__ = 2
    /\ result.arg = enum_items[2].item_value
    /\ result.ret.exc = "none"
    /\ has_ui_labels

\* The names the caller or the constructor assigned on the enumeration.
assigned == DOMAIN __dict__ \cup {"has_ui_labels"}

\* What C6 says of assignments: one to a declared label is rejected with an
\* AssertionError, any other succeeds and the name then reads as the value.
C6_Assignments ==
    /\ result.op = "setattr" =>
          IF result.arg[1] \in od_keys(_items)
          THEN result.ret.exc = "AssertionError" /\ result.arg[1] \notin DOMAIN __dict__
          ELSE result.ret.exc = "none" /\ getattr(result.arg[1]) = Return(result.arg[2])
    /\ (result.op = "getattr" /\ result.arg \in DOMAIN __dict__) =>
          result.ret = Return(__dict__[result.arg])

\* C6 as stated: reading a declared label returns the member declared with it;
\* reading a name that is neither a declared label nor a name assigned before
\* fails with AttributeError; and the assignments are as above.
C6_LabelsAreAttributes ==
    /\ result.op = "getattr" =>
          /\ result.arg \in od_keys(_items) =>
                /\ result.ret.exc = "none"
                /\ result.ret.value = od_get(_items, result.arg)
          /\ (result.arg \notin od_keys(_items) /\ result.arg \notin assigned) =>
                result.ret.exc = "AttributeError"
    /\ C6_Assignments

\* C6 amended: reading a name the enumeration has as an attribute of its own
\* (assigned by the caller or by the constructor) or of its class (a method)
\* returns that attribute, a declared label or not; reading any other declared
\* label returns the member declared with it; reading any other name fails with
\* AttributeError; and the assignments are as above.
C6_LabelsBehindAttributes ==
    /\ result.op = "getattr" =>
          IF result.arg \in DOMAIN __dict__
          THEN result.ret = Return(__dict__[result.arg])
          ELSE IF result.arg = "has_ui_labels"
          THEN result.ret = Return(Object(bool(has_ui_labels)))
          ELSE IF result.arg \in ClassAttributes
          THEN result.ret = Return(Object(BoundMethod))
          ELSE IF result.arg \in od_keys(_items)
          THEN /\ result.ret.exc = "none"
               /\ result.ret.value = od_get(_items, result.arg)
          ELSE result.ret.exc = "AttributeError" /\ result.ret.value = result.arg
    /\ (result.op = "Enum" /\ pc = "ready") =>
          \A k \in 1..Len(result.arg) :
              result.arg[k][2] \notin ClassAttributes =>
                  /\ getattr(result.arg[k][2]).exc = "none"
                  /\ getattr(result.arg[k][2]).value.item_value = result.arg[k][1]
    /\ C6_Assignments

\* A declared label was read, after an assignment, and gave its member.
C6_Witness ==
    /\ result.op = "getattr"
    /\ result.arg = "A"
    /\ result.arg \in od_keys(_items)
    /\ DOMAIN __dict__ # {}
    /\ result.ret.exc = "none"
    /\ isinstance_EnumItem(result.ret.value)
    /\ result.ret.value.item_value = "bb"

\* C7: set_ui_labels with a mapping whose keys are exactly the members
\* succeeds, has_ui_labels is True after it and get_ui_labels() then returns
\* the pairs (member, mapping[member]) in declaration order.
C7_SetThenGetUiLabels ==
    (result.op = "set_ui_labels" /\ DOMAIN result.arg = MemberKeys) =>
        /\ result.ret.exc = "none"
        /\ has_ui_labels
        /\ get_ui_labels.exc = "none"
        /\ get_ui_labels.value =
              [i \in 1..Len(enum_items) |->
                  <<enum_items[i], result.arg[key(enum_items[i])]>>]

is_set(i) == get_ui_label(enum_items[i]).exc = "none"

\* C9: a member starts in Unset; get_ui_label() fails with an AssertionError
\* in Unset and returns the label last assigned in Set; set_ui_label(label),
\* whatever the label, leaves the member in Set; and no set_ui_label or
\* set_ui_labels takes a member from Set back to Unset.
C9_UiLabelStates ==
    /\ []((result.op = "Enum" /\ pc = "ready") =>
            \A i \in 1..Len(enum_items) : ~is_set(i))
    /\ [](result.op = "get_ui_label" =>
            IF is_set(result.arg.self)
            THEN result.ret.value = enum_items[result.arg.self]._item_ui_label
            ELSE result.ret.exc = "AssertionError")
    /\ [](result.op = "set_ui_label" =>
            /\ is_set(result.arg.self)
            /\ get_ui_label(enum_items[result.arg.self]).value = result.arg.label)
    /\ [][\A i \in 1..Len(enum_items) : is_set(i) => is_set(i)']_vars

\* A str, as a field is handed it.
stored_str(o) ==
    /\ o.enum = "none"
    /\ o.obj # Object(None)
    /\ isinstance_str(o.obj.repr)

\* C11: for a field built on the enumeration and every member m,
\* from_db_value(get_prep_value(m)) == m, and get_prep_value(m) is the value
\* of m, no longer than the field's max_length; None passes through
\* get_prep_value, to_python and from_db_value; and to_python fails for a
\* str that is no value of the enumeration.
C11_FieldRoundTrip ==
    (pc = "ready" /\ field.built) =>
        /\ \A i \in 1..Len(enum_items) :
              LET m == enum_items[i]
                  stored == get_prep_value(m)
                  loaded == from_db_value(stored.value)
              IN /\ stored = Return(Object(m.item_value))
                 /\ Len(m.item_value) <= field.max_length
                 /\ loaded.exc = "none"
                 /\ isinstance_EnumItem(loaded.value)
                 /\ _compare(loaded.value, m, "eq") = True
        /\ (result.op = "get_prep_value" /\ result.arg.enum = "self") =>
              /\ result.ret = Return(Object(result.arg.obj.item_value))
              /\ Len(result.ret.value.repr) <= field.max_length
        /\ (result.op \in {"get_prep_value", "to_python", "from_db_value"}
                /\ result.arg.obj = Object(None)) =>
              result.ret = Return(Object(None))
        /\ (result.op \in {"to_python", "from_db_value"} /\ stored_str(result.arg)) =>
              IF result.arg.obj.repr \in Range(__iter__)
              THEN /\ result.ret.exc = "none"
                   /\ isinstance_EnumItem(result.ret.value)
                   /\ result.ret.value \in Range(enum_items)
                   /\ result.ret.value.item_value = result.arg.obj.repr
              ELSE result.ret.exc = "AssertionError"

\* A field whose max_length is 3 has loaded the stored "a" as the labelled
\* second member of an enumeration, and it has failed for a stored str.
C11_Witness ==
    /\ pc = "ready"
    /\ field.built
    /\ field.max_length = 3
    /\ __iter__ = <<"ccc", "a">>
    /\ result.op = "from_db_value"
    /\ result.arg.obj = Object("a")
    /\ result.ret.exc = "none"
    /\ result.ret.value = enum_items[2]
    /\ enum_items[2]._item_ui_label = "x"

\* C12 as stated: to_python returns an item of the field's enumeration as it
\* is and fails for every item of any other enumeration.
C12_OtherEnumItemRejected ==
    (result.op = "to_python" /\ isinstance_EnumItem(result.arg.obj)) =>
        IF result.arg.enum = "self"
        THEN result.ret = Return(result.arg.obj)
        ELSE result.ret.exc = "AssertionError"

\* C12: to_python returns an item as it is when the item's values are the
\* values of the field's enumeration in their order, as they are for every
\* item of that enumeration, and fails with an AssertionError for every item
\* over other values.
C12_OtherValuesItemRejected ==
    (result.op = "to_python" /\ isinstance_EnumItem(result.arg.obj)) =>
        /\ result.arg.enum = "self" => result.arg.obj.enum_values = __iter__
        /\ IF result.arg.obj.enum_values = __iter__
           THEN result.ret = Return(result.arg.obj)
           ELSE result.ret.exc = "AssertionError" /\ result.ret.value = result.arg.obj

\* to_python has returned the second item of another enumeration that
\* declares the two values of the field's enumeration.
C12_Witness ==
    /\ field.built
    /\ Len(enum_items) = 2
    /\ result.op = "to_python"
    /\ result.arg.enum = "other"
    /\ result.arg.obj.enum_values = __iter__
    /\ result.arg.obj._item_index = 1
    /\ result.ret = Return(result.arg.obj)

\* C13: whatever set_ui_labels and set_ui_label calls have been made,
\* has_ui_labels means that every member's label is set, so that
\* get_ui_labels() returns one pair per member and an EnumField can be built
\* on the enumeration; a fresh enumeration has no has_ui_labels and its
\* get_ui_labels() fails with an AssertionError; and has_ui_labels never
\* goes back from True to False.
C13_HasUiLabelsAllSet ==
    /\ []((pc = "ready" /\ has_ui_labels) =>
            /\ \A i \in 1..Len(enum_items) : is_set(i)
            /\ get_ui_labels.exc = "none"
            /\ Len(get_ui_labels.value) = Len(enum_items)
            /\ EnumField__init__([n \in {} |-> Choices]).ret.exc = "none")
    /\ []((result.op = "Enum" /\ pc = "ready") =>
            /\ ~has_ui_labels
            /\ get_ui_labels.exc = "AssertionError")
    /\ [][has_ui_labels => has_ui_labels']_vars
====
